---------------------------- MODULE Spec2Model ----------------------------
(***************************************************************************)
(* Model of the IIIF newspaper-structure tools.                            *)
(*                                                                         *)
(*   app.py   the GUI (class ManifestApp): run_search classifies the pages *)
(*            of a range, save_manifest writes the `structures` field.     *)
(*   app5.py  the CLI: analyze_manifest classifies the pages of a range,   *)
(*            main writes one "start_id,end_id" line per issue range.      *)
(*                                                                         *)
(* Pages are numbered 1..total_pages as in the user interface; app5.py     *)
(* works with 0-based indices, which the model keeps in the variables that *)
(* the source keeps 0-based (cover_pages_indices, start_idx, end_idx).     *)
(*                                                                         *)
(* The specifications share the variables:                                 *)
(*   SpecAnalyze  the classification loops (run_search, analyze_manifest)  *)
(*   SpecSegment  the range loops (save_manifest, main)                    *)
(*   SpecBuild    save_manifest over manifests with any "@id"              *)
(*   SpecRun      whole runs: a session of the GUI (fetch, analyse, edit,  *)
(*                save, with the worker threads and the Tk event queue)    *)
(*                and a run of the CLI from main to its exit               *)
(***************************************************************************)
EXTENDS Integers, Sequences, FiniteSets

(***************************************************************************)
(* Bounds of the model.                                                    *)
(***************************************************************************)
\* pages of a manifest in SpecAnalyze
MaxAnalyzePages == 3
\* pages of a manifest in SpecSegment
MaxPages == 5
\* confidence levels a successful classification can report (1..MaxProb);
\* 0 is the confidence of the default verdict (prob 0.0)
MaxProb == 2
\* pages of a manifest in SpecBuild
MaxBuildPages == 3
\* characters of the manifest's "@id" in SpecBuild
MaxIdLen == 2
\* pages of a manifest in SpecRun
MaxRunPages == 2
\* clicks on the buttons of the main window in a session of the GUI in SpecRun
MaxClicks == 4

VARIABLES
    entry,                \* which script runs: "app" (GUI) or "app5" (CLI)
    manifest_at_id,       \* app.py: the "@id" of self.manifest
    canvases,             \* the manifest's canvases, position 1..total_pages
    total_pages,          \* len(canvases)
    start_page,           \* first page of the analysed range (1-based)
    end_page,             \* last page of the analysed range (1-based, inclusive)
    is_split_scan,        \* the split-scan option
    pc,                   \* position of the running function
    i,                    \* the enumerate() index of the running loop
    analysis_results,     \* app.py: self.analysis_results
    cover_pages_indices,  \* app5.py: cover_pages_indices / cover_indices (0-based)
    response,             \* outcome of requests.get for the current page
    image,                \* outcome of Image.open for the current page (split scan)
    result,               \* classify() of the whole image
    result_left,          \* classify() of the left half
    result_right,         \* classify() of the right half
    check_state,          \* app.py: the editor's check marks, page -> BOOLEAN
    manifest_structures,  \* app.py: the `structures` field of self.manifest
    structures,           \* app.py: the local list save_manifest builds
    start_index,          \* app.py save_manifest: start_page - 1 of the range
    end_index,            \* app.py save_manifest: end_page of the range
    start_idx,            \* app5.py main: 0-based start of the range
    end_idx,              \* app5.py main: 0-based end of the range
    out_file,             \* app5.py main: the output file
    after_queue,          \* app.py: the callbacks scheduled with root.after(0, ...)
    threads,              \* app.py: the worker threads started and not ended
    manifest,             \* self.manifest / the fetched manifest (0: None)
    arg_start,            \* the start of the range the request being answered
                          \* supplied: start_entry as start_search read it / args.start
    arg_end,              \* its end: end_entry as start_search read it / args.end
    button1,              \* app.py: state of button1 and url_entry
    button2,              \* app.py: state of button2, start_entry, end_entry,
                          \* split_scan_check
    button3,              \* app.py: state of button3
    fetch_pc,             \* app.py: position of the fetch_manifest thread
    editor,               \* app.py: the editor window, "closed" or "open"
    progress,             \* app.py: the values update_progress has shown since
                          \* start_search set the bar to 0
    analysis_of,          \* the manifest whose canvases the records of
                          \* analysis_results were made from (0: none)
    last_log,             \* the answer to the caller's last request: the message
                          \* logged, or what was started or opened
    exit_code,            \* app5.py: the exit status of the process
    clicks                \* app.py: the clicks on button1, button2 and button3
                          \* the main loop has dispatched

inputVars == <<entry, manifest_at_id, canvases, total_pages, start_page, end_page,
               is_split_scan>>
analyzeVars == <<analysis_results, cover_pages_indices, response, image, result,
                 result_left, result_right>>
segmentVars == <<check_state, manifest_structures, structures, start_index,
                 end_index, start_idx, end_idx, out_file>>
threadVars == <<after_queue, threads>>
uiVars == <<manifest, arg_start, arg_end, button1, button2, button3, fetch_pc,
            editor, progress, analysis_of, last_log, exit_code, clicks>>
vars == <<entry, manifest_at_id, canvases, total_pages, start_page, end_page, is_split_scan,
          pc, i, analysis_results, cover_pages_indices, response, image,
          result, result_left, result_right, check_state, manifest_structures,
          structures, start_index, end_index, start_idx, end_idx, out_file,
          after_queue, threads, manifest, arg_start, arg_end, button1, button2,
          button3, fetch_pc, editor, progress, analysis_of, last_log, exit_code,
          clicks>>

(***************************************************************************)
(* Canvases.  A canvas is modelled by what the two programs read of it:    *)
(*   images      "absent"  no images / resource / service / @id key        *)
(*               "empty"   "images": []                                    *)
(*               "service" images[0].resource.service.@id is present       *)
(*   service_id  the identifier that service @id ends in (0: none)         *)
(*   id          the canvas's own @id (0: the canvas has no @id)           *)
(* Identifiers are modelled by the page number of the canvas they name.    *)
(***************************************************************************)
NoId == 0

CanvasOf(p, images, has_id) ==
    [images |-> images,
     service_id |-> IF images = "service" THEN p ELSE NoId,
     id |-> IF has_id THEN p ELSE NoId]

ImageKinds == {"absent", "empty", "service"}

(***************************************************************************)
(* Strings are sequences of characters.  The manifest's "@id" is a record: *)
(* present (the key is in the manifest) and value (its characters).        *)
(***************************************************************************)
\* the characters an "@id" is made of here: a letter, the slash, a blank
IdChars == {"m", "/", " "}

AtId(chars) == [present |-> TRUE, value |-> chars]

NoAtId == [present |-> FALSE, value |-> <<>>]

\* str.rstrip(chars) for one character
RECURSIVE Rstrip(_, _)
Rstrip(s, ch) ==
    IF s # <<>> /\ s[Len(s)] = ch THEN Rstrip(SubSeq(s, 1, Len(s) - 1), ch) ELSE s

\* str.lstrip(chars) for one character
RECURSIVE Lstrip(_, _)
Lstrip(s, ch) ==
    IF s # <<>> /\ Head(s) = ch THEN Lstrip(Tail(s), ch) ELSE s

\* str.strip(): white space is removed at both ends
Strip(s) == Rstrip(Lstrip(s, " "), " ")

Digits == <<"0", "1", "2", "3", "4", "5", "6", "7", "8", "9">>

\* the decimal digits an f-string formats a non-negative int with
RECURSIVE Str(_)
Str(n) ==
    IF n < 10 THEN <<Digits[n + 1]>>
    ELSE Str(n \div 10) \o <<Digits[(n % 10) + 1]>>

\* 'http://example.com/manifest'
DefaultBaseId == <<"d">>

\* line 371-373: base_id = self.manifest.get('@id', 'http://example.com/manifest')
\* if not base_id or not base_id.strip(): base_id = 'http://example.com/manifest'
BaseId ==
    LET base_id == IF manifest_at_id.present THEN manifest_at_id.value
                   ELSE DefaultBaseId
    IN  IF base_id = <<>> \/ Strip(base_id) = <<>> THEN DefaultBaseId ELSE base_id

\* mutant of RangeId: the trailing slashes stay
RangeIdNoStrip(base_id, k) ==
    base_id \o <<"/", "r", "a", "n", "g", "e", "/", "r">> \o Str(k)

\* line 378: range_id = f"{base_id.rstrip('/')}/range/r{i}"
RangeId(base_id, k) ==
    Rstrip(base_id, "/") \o <<"/", "r", "a", "n", "g", "e", "/", "r">> \o Str(k)

(***************************************************************************)
(* classify().  app.py returns {"prob", "is_cover"} or {"error"};          *)
(* app5.py returns {"is_cover"} or re-raises the exception.                *)
(***************************************************************************)
Unset == [kind |-> "unset", is_cover |-> FALSE, prob |-> 0]

ClassifyError == [kind |-> "error", is_cover |-> FALSE, prob |-> 0]

ClassifyRaised == [kind |-> "raised", is_cover |-> FALSE, prob |-> 0]

AppClassify ==
    {ClassifyError} \cup
    {[kind |-> "ok", is_cover |-> b, prob |-> p] : b \in BOOLEAN, p \in 1..MaxProb}

CliClassify ==
    {ClassifyRaised} \cup
    {[kind |-> "ok", is_cover |-> b, prob |-> 0] : b \in BOOLEAN}

\* dict.get('is_cover', False) / dict.get("is_cover")
GetIsCover(r) == IF r.kind = "ok" THEN r.is_cover ELSE FALSE

\* dict.get('prob', 0)
GetProb(r) == IF r.kind = "ok" THEN r.prob ELSE 0

Max(a, b) == IF a >= b THEN a ELSE b

(***************************************************************************)
(* app.py run_search: the page record and its updates.                     *)
(***************************************************************************)
PageData(page_num, canvas) ==
    [page_num |-> page_num, canvas_id |-> canvas.id, is_cover |-> FALSE, prob |-> 0]

\* line 216-220: if 'error' not in result: page_data.update(result)
UpdatePageData(page_data, r) ==
    IF r.kind = "ok"
    THEN [page_data EXCEPT !.is_cover = r.is_cover, !.prob = r.prob]
    ELSE page_data

\* page_data['is_cover'] = is_left_cover or is_right_cover
\* page_data['prob'] = max(result_left.get('prob', 0), result_right.get('prob', 0))
MergeHalves(page_data, left, right) ==
    [page_data EXCEPT !.is_cover = GetIsCover(left) \/ GetIsCover(right),
                      !.prob = Max(GetProb(left), GetProb(right))]

\* the canvas the loop is at: canvases_to_analyze[i] = canvases[start_index + i]
CurrentCanvas == canvases[start_page + i]

\* total_to_process = len(canvases[start_index:end_index])
TotalToProcess == end_page - start_page + 1

AppInLoop == entry = "app" /\ pc = "loop" /\ i < TotalToProcess

\* root.after(0, fn, arg): the callback as the event queue holds it.  toggle_ui
\* is only ever scheduled with tk.NORMAL, show_summary takes no argument: their
\* arg is 0.
Callback(fn, arg) == [fn |-> fn, arg |-> arg]

\* line 247: progress = (i + 1) / total_to_process * 100, in whole percent as
\* update_progress displays it (int(value))
Progress(done, total) == (done * 100) \div total

\* line 204-208: no image URL: the default record is appended, `continue`
\* (line 247-248 is skipped: no update_progress is scheduled)
AppNoImageUrl ==
    /\ AppInLoop
    /\ CurrentCanvas.images = "absent"
    /\ analysis_results' = Append(analysis_results, PageData(start_page + i, CurrentCanvas))
    /\ i' = i + 1
    /\ response' = "unset" /\ image' = "unset"
    /\ result' = Unset /\ result_left' = Unset /\ result_right' = Unset
    /\ UNCHANGED <<pc, cover_pages_indices>>
    /\ UNCHANGED <<uiVars, threadVars, inputVars, segmentVars>>

\* line 204: canvas.get('images', [{}])[0] on "images": [] raises IndexError
\* outside the try block: the worker thread ends, show_summary is never scheduled
AppImagesIndexError ==
    /\ AppInLoop
    /\ CurrentCanvas.images = "empty"
    /\ pc' = "crashed"
    /\ threads' = threads - 1
    /\ UNCHANGED <<i, after_queue, analyzeVars, uiVars, inputVars, segmentVars>>

\* mutant of AppFetchFail: the exception leaves the loop
AppFetchFailAborts ==
    /\ AppInLoop
    /\ CurrentCanvas.images = "service"
    /\ response' = "failed"
    /\ pc' = "crashed"
    /\ image' = "unset" /\ result' = Unset /\ result_left' = Unset /\ result_right' = Unset
    /\ UNCHANGED <<i, analysis_results, cover_pages_indices>>
    /\ threads' = threads - 1
    /\ UNCHANGED <<after_queue, uiVars, inputVars, segmentVars>>

\* line 212-213 raise, line 242-248: logged, the default record is appended,
\* update_progress is scheduled
AppFetchFail ==
    /\ AppInLoop
    /\ CurrentCanvas.images = "service"
    /\ response' = "failed"
    /\ image' = "unset" /\ result' = Unset /\ result_left' = Unset /\ result_right' = Unset
    /\ analysis_results' = Append(analysis_results, PageData(start_page + i, CurrentCanvas))
    /\ i' = i + 1
    /\ UNCHANGED <<pc, cover_pages_indices>>
    /\ after_queue' = Append(after_queue,
                             Callback("update_progress", Progress(i + 1, TotalToProcess)))
    /\ UNCHANGED <<threads, uiVars, inputVars, segmentVars>>

\* line 215-220: the whole image is classified
AppClassifyWhole ==
    /\ AppInLoop
    /\ CurrentCanvas.images = "service"
    /\ ~is_split_scan
    /\ response' = "ok"
    /\ \E r \in AppClassify :
         /\ result' = r
         /\ analysis_results' =
              Append(analysis_results,
                     UpdatePageData(PageData(start_page + i, CurrentCanvas), r))
    /\ image' = "unset" /\ result_left' = Unset /\ result_right' = Unset
    /\ i' = i + 1
    /\ UNCHANGED <<pc, cover_pages_indices>>
    /\ after_queue' = Append(after_queue,
                             Callback("update_progress", Progress(i + 1, TotalToProcess)))
    /\ UNCHANGED <<threads, uiVars, inputVars, segmentVars>>

\* line 222 raises (the bytes are no image), line 242-245
AppSplitDecodeFail ==
    /\ AppInLoop
    /\ CurrentCanvas.images = "service"
    /\ is_split_scan
    /\ response' = "ok"
    /\ image' = "bad"
    /\ result' = Unset /\ result_left' = Unset /\ result_right' = Unset
    /\ analysis_results' = Append(analysis_results, PageData(start_page + i, CurrentCanvas))
    /\ i' = i + 1
    /\ UNCHANGED <<pc, cover_pages_indices>>
    /\ after_queue' = Append(after_queue,
                             Callback("update_progress", Progress(i + 1, TotalToProcess)))
    /\ UNCHANGED <<threads, uiVars, inputVars, segmentVars>>

\* line 222-240: both halves are classified, the results merged
AppClassifySplit ==
    /\ AppInLoop
    /\ CurrentCanvas.images = "service"
    /\ is_split_scan
    /\ response' = "ok"
    /\ image' = "ok"
    /\ result' = Unset
    /\ \E l \in AppClassify, r \in AppClassify :
         /\ result_left' = l
         /\ result_right' = r
         /\ analysis_results' =
              Append(analysis_results,
                     MergeHalves(PageData(start_page + i, CurrentCanvas), l, r))
    /\ i' = i + 1
    /\ UNCHANGED <<pc, cover_pages_indices>>
    /\ after_queue' = Append(after_queue,
                             Callback("update_progress", Progress(i + 1, TotalToProcess)))
    /\ UNCHANGED <<threads, uiVars, inputVars, segmentVars>>

\* line 250: the loop is over, show_summary is scheduled, the thread ends
AppLoopEnd ==
    /\ entry = "app" /\ pc = "loop" /\ i = TotalToProcess
    /\ pc' = "summary"
    /\ after_queue' = Append(after_queue, Callback("show_summary", 0))
    /\ threads' = threads - 1
    /\ UNCHANGED <<i, analyzeVars, uiVars, inputVars, segmentVars>>


(***************************************************************************)
(* app5.py analyze_manifest: the loop over canvases_to_analyze.            *)
(***************************************************************************)
\* get_full_image_url: the URL, or None on KeyError / IndexError
GetFullImageUrl(canvas) ==
    IF canvas.images = "service" THEN canvas.service_id ELSE NoId

\* current_page_index = start_index + i, with start_index = start_page - 1
CurrentPageIndex == start_page - 1 + i

\* line 112-115: is_cover_found for the whole image (an exception leaves the try)
CliWholeFound(r) == r.kind = "ok" /\ GetIsCover(r)

\* line 117-132: is_cover_found for a split scan; classify() raising in either
\* half leaves the try block before is_cover_found is set
CliSplitFound(left, right) ==
    /\ left.kind = "ok"
    /\ right.kind = "ok"
    /\ (GetIsCover(left) \/ GetIsCover(right))

\* line 134-135
AppendIfFound(found) ==
    IF found THEN Append(cover_pages_indices, CurrentPageIndex)
    ELSE cover_pages_indices

CliInLoop == entry = "app5" /\ pc = "loop" /\ i < TotalToProcess

\* line 101-104
CliNoImageUrl ==
    /\ CliInLoop
    /\ GetFullImageUrl(CurrentCanvas) = NoId
    /\ i' = i + 1
    /\ response' = "unset" /\ image' = "unset"
    /\ result' = Unset /\ result_left' = Unset /\ result_right' = Unset
    /\ UNCHANGED <<pc, analysis_results, cover_pages_indices>>
    /\ UNCHANGED <<uiVars, threadVars, inputVars, segmentVars>>

\* line 107-108 raise, line 137-139
CliFetchFail ==
    /\ CliInLoop
    /\ GetFullImageUrl(CurrentCanvas) # NoId
    /\ response' = "failed"
    /\ image' = "unset" /\ result' = Unset /\ result_left' = Unset /\ result_right' = Unset
    /\ i' = i + 1
    /\ UNCHANGED <<pc, analysis_results, cover_pages_indices>>
    /\ UNCHANGED <<uiVars, threadVars, inputVars, segmentVars>>

\* line 112-115, 134-139
CliClassifyWhole ==
    /\ CliInLoop
    /\ GetFullImageUrl(CurrentCanvas) # NoId
    /\ ~is_split_scan
    /\ response' = "ok"
    /\ \E r \in CliClassify :
         /\ result' = r
         /\ cover_pages_indices' = AppendIfFound(CliWholeFound(r))
    /\ image' = "unset" /\ result_left' = Unset /\ result_right' = Unset
    /\ i' = i + 1
    /\ UNCHANGED <<pc, analysis_results>>
    /\ UNCHANGED <<uiVars, threadVars, inputVars, segmentVars>>

\* line 117 raises, line 137-139
CliSplitDecodeFail ==
    /\ CliInLoop
    /\ GetFullImageUrl(CurrentCanvas) # NoId
    /\ is_split_scan
    /\ response' = "ok"
    /\ image' = "bad"
    /\ result' = Unset /\ result_left' = Unset /\ result_right' = Unset
    /\ i' = i + 1
    /\ UNCHANGED <<pc, analysis_results, cover_pages_indices>>
    /\ UNCHANGED <<uiVars, threadVars, inputVars, segmentVars>>

\* line 117-139: the right half is classified only if the left half did not raise
CliClassifySplit ==
    /\ CliInLoop
    /\ GetFullImageUrl(CurrentCanvas) # NoId
    /\ is_split_scan
    /\ response' = "ok"
    /\ image' = "ok"
    /\ result' = Unset
    /\ \E l \in CliClassify, r \in CliClassify :
         /\ result_left' = l
         /\ result_right' = IF l.kind = "raised" THEN Unset ELSE r
         /\ cover_pages_indices' = AppendIfFound(CliSplitFound(l, r))
    /\ i' = i + 1
    /\ UNCHANGED <<pc, analysis_results>>
    /\ UNCHANGED <<uiVars, threadVars, inputVars, segmentVars>>

\* line 141: return cover_pages_indices, canvases
CliLoopEnd ==
    /\ entry = "app5" /\ pc = "loop" /\ i = TotalToProcess
    /\ pc' = "returned"
    /\ UNCHANGED <<i, analyzeVars, uiVars, threadVars, inputVars, segmentVars>>

(***************************************************************************)
(* SpecAnalyze: one analysis run of either program over a loaded manifest  *)
(* and a valid page range (start_search and analyze_manifest let no other  *)
(* range reach the loop).  The canvases' own @id plays no part in the      *)
(* analysis (run_search only copies it into the page record), so every     *)
(* canvas has one here.                                                    *)
(***************************************************************************)
NoStructures == [present |-> FALSE, ranges |-> <<>>]

\* what the caller supplies as a bound of the range: the text of an entry field
\* (app.py) or a command-line argument (app5.py).  "int": int() accepts it;
\* "text": int() raises ValueError, or the request read no bound; "none": the
\* argument was not given.
IntArg(n) == [kind |-> "int", value |-> n]

NoText == [kind |-> "text", value |-> 0]

NoneArg == [kind |-> "none", value |-> 0]

\* the part of the state that belongs to the session around an analysis or a
\* save: n_threads workers run, the three buttons are in state `buttons`, the
\* editor window is `window`, a manifest is loaded
SessionAt(n_threads, buttons, window) ==
    /\ after_queue = <<>>
    /\ threads = n_threads
    /\ manifest = 1
    /\ arg_start = IntArg(start_page)
    /\ arg_end = IntArg(end_page)
    /\ button1 = buttons
    /\ button2 = buttons
    /\ button3 = buttons
    /\ fetch_pc = "idle"
    /\ editor = window
    /\ progress = <<>>
    /\ analysis_of = IF n_threads > 0 THEN 1 ELSE 0
    /\ last_log = "none"
    /\ exit_code = 0
    /\ clicks = 0

NoFile == [created |-> FALSE, lines |-> <<>>]

InitAnalyze ==
    /\ entry \in {"app", "app5"}
    /\ manifest_at_id = AtId(<<"m">>)
    /\ total_pages \in 1..MaxAnalyzePages
    /\ \E kinds \in [1..total_pages -> ImageKinds] :
         canvases = [p \in 1..total_pages |-> CanvasOf(p, kinds[p], TRUE)]
    /\ start_page \in 1..total_pages
    /\ end_page \in start_page..total_pages
    /\ is_split_scan \in BOOLEAN
    /\ pc = "loop"
    /\ i = 0
    /\ analysis_results = <<>>
    /\ cover_pages_indices = <<>>
    /\ response = "unset"
    /\ image = "unset"
    /\ result = Unset
    /\ result_left = Unset
    /\ result_right = Unset
    /\ check_state = <<>>
    /\ manifest_structures = NoStructures
    /\ structures = <<>>
    /\ start_index = 0
    /\ end_index = 0
    /\ start_idx = 0
    /\ end_idx = 0
    /\ out_file = NoFile
    /\ SessionAt(IF entry = "app" THEN 1 ELSE 0, "disabled", "closed")

NextAnalyze ==
    \/ AppNoImageUrl
    \/ AppImagesIndexError
    \/ AppFetchFail
    \/ AppClassifyWhole
    \/ AppSplitDecodeFail
    \/ AppClassifySplit
    \/ AppLoopEnd
    \/ CliNoImageUrl
    \/ CliFetchFail
    \/ CliClassifyWhole
    \/ CliSplitDecodeFail
    \/ CliClassifySplit
    \/ CliLoopEnd

SpecAnalyze == InitAnalyze /\ [][NextAnalyze]_vars

(***************************************************************************)
(* Sequences of numbers: sorted() / list.sort(), as an insertion sort.     *)
(***************************************************************************)
RECURSIVE Insert(_, _)
Insert(x, s) ==
    IF s = <<>> THEN <<x>>
    ELSE IF x <= Head(s) THEN <<x>> \o s
    ELSE <<Head(s)>> \o Insert(x, Tail(s))

RECURSIVE Sorted(_)
Sorted(s) == IF s = <<>> THEN <<>> ELSE Insert(Head(s), Sorted(Tail(s)))

(***************************************************************************)
(* app.py save_manifest.                                                   *)
(***************************************************************************)
\* line 361-362: cover_pages = [num for num, checked in check_state.items()
\* if checked]; cover_pages.sort()
CoverPages ==
    Sorted(SelectSeq([p \in 1..total_pages |-> p], LAMBDA p : check_state[p]))

\* mutant of EndPage: the last range ends with the analysed range
EndPageAnalysedEnd(cover_pages, k, total) ==
    IF k + 1 < Len(cover_pages) THEN cover_pages[k + 2] - 1 ELSE end_page

\* line 380: end_page = cover_pages[i+1] - 1 if i + 1 < len(cover_pages)
\* else self.total_pages
EndPage(cover_pages, k, total) ==
    IF k + 1 < Len(cover_pages) THEN cover_pages[k + 2] - 1 ELSE total

\* mutant of RangeCanvasIds: the slice stops one canvas early
RangeCanvasIdsShort(from_index, to_index) ==
    LET slice == SubSeq(canvases, from_index + 1, to_index - 1)
        with_id == SelectSeq(slice, LAMBDA c : c.id # NoId)
    IN  [k \in 1..Len(with_id) |-> with_id[k].id]

\* line 385: [c['@id'] for c in self.canvases[start_index:end_index] if '@id' in c]
RangeCanvasIds(from_index, to_index) ==
    LET slice == SubSeq(canvases, from_index + 1, to_index)
        with_id == SelectSeq(slice, LAMBDA c : c.id # NoId)
    IN  [k \in 1..Len(with_id) |-> with_id[k].id]

\* mutant of AppendRange: the record is appended whatever its members
AppendRangeAlways(list, k, first_page, ids) ==
    Append(list, [range_id |-> RangeId(BaseId, k), label |-> first_page,
                  canvases |-> ids])

\* line 387-393: the record is appended when it has members.  range_id is
\* the "@id" of the record, label stands for the start page in the label.
AppendRange(list, k, first_page, ids) ==
    IF ids # <<>>
    THEN Append(list, [range_id |-> RangeId(BaseId, k), label |-> first_page,
                       canvases |-> ids])
    ELSE list

\* line 364-366: no cover is checked: manifest.pop('structures', None)
SaveNoCovers ==
    /\ entry = "app" /\ pc = "save"
    /\ CoverPages = <<>>
    /\ manifest_structures' = [present |-> FALSE, ranges |-> <<>>]
    /\ pc' = "written"
    /\ UNCHANGED <<i, check_state, structures, start_index, end_index,
                   start_idx, end_idx, out_file>>
    /\ UNCHANGED <<uiVars, threadVars, inputVars, analyzeVars>>

\* line 367-375: structures = []
SaveBegin ==
    /\ entry = "app" /\ pc = "save"
    /\ CoverPages # <<>>
    /\ structures' = <<>>
    /\ i' = 0
    /\ pc' = "ranges"
    /\ UNCHANGED <<check_state, manifest_structures, start_index, end_index,
                   start_idx, end_idx, out_file>>
    /\ UNCHANGED <<uiVars, threadVars, inputVars, analyzeVars>>

\* line 376-393: one iteration of the loop over cover_pages
SaveRange ==
    /\ entry = "app" /\ pc = "ranges"
    /\ i < Len(CoverPages)
    /\ LET first_page == CoverPages[i + 1]
           last_page == EndPage(CoverPages, i, total_pages)
       IN  /\ start_index' = first_page - 1
           /\ end_index' = last_page
           /\ structures' =
                AppendRange(structures, i, first_page,
                            RangeCanvasIds(first_page - 1, last_page))
    /\ i' = i + 1
    /\ UNCHANGED <<pc, check_state, manifest_structures, start_idx, end_idx, out_file>>
    /\ UNCHANGED <<uiVars, threadVars, inputVars, analyzeVars>>

\* line 395: self.manifest['structures'] = structures
SaveAssign ==
    /\ entry = "app" /\ pc = "ranges"
    /\ i = Len(CoverPages)
    /\ manifest_structures' = [present |-> TRUE, ranges |-> structures]
    /\ pc' = "written"
    /\ UNCHANGED <<i, check_state, structures, start_index, end_index,
                   start_idx, end_idx, out_file>>
    /\ UNCHANGED <<uiVars, threadVars, inputVars, analyzeVars>>

(***************************************************************************)
(* app5.py main.                                                           *)
(***************************************************************************)
\* get_id_from_canvas: the last path segment of the service @id, or None
GetIdFromCanvas(canvas) ==
    IF canvas.images = "service" THEN canvas.service_id ELSE NoId

\* mutant of StartIdx: the first range starts at the first analysed page
StartIdxFromAnalysedStart(cover_indices, k) ==
    IF k = 0 THEN start_page - 1 ELSE Sorted(cover_indices)[k + 1]

\* line 193: start_idx, the i-th element of sorted(cover_indices)
StartIdx(cover_indices, k) == Sorted(cover_indices)[k + 1]

\* mutant of EndIdx: the range ends at the next cover, not before it
EndIdxNextCover(cover_indices, k, total) ==
    LET next == IF k + 1 < Len(cover_indices)
                THEN Sorted(cover_indices)[k + 2]
                ELSE total - 1
    IN  IF next < StartIdx(cover_indices, k) THEN StartIdx(cover_indices, k) ELSE next

\* line 196-202
EndIdx(cover_indices, k, total) ==
    LET next == IF k + 1 < Len(cover_indices)
                THEN Sorted(cover_indices)[k + 2] - 1
                ELSE total - 1
    IN  IF next < StartIdx(cover_indices, k) THEN StartIdx(cover_indices, k) ELSE next

\* line 206-207: if start_id and end_id: f.write(f"{start_id},{end_id}\n")
WriteLine(lines, start_id, end_id) ==
    IF start_id # NoId /\ end_id # NoId
    THEN Append(lines, <<start_id, end_id>>)
    ELSE lines

\* line 179-181: no cover: the output file is not created
MainNoCovers ==
    /\ entry = "app5" /\ pc = "main"
    /\ cover_pages_indices = <<>>
    /\ pc' = "exit"
    /\ UNCHANGED <<i, segmentVars, uiVars, threadVars, inputVars, analyzeVars>>

\* line 192: open(args.output, "w")
MainOpen ==
    /\ entry = "app5" /\ pc = "main"
    /\ cover_pages_indices # <<>>
    /\ out_file' = [created |-> TRUE, lines |-> <<>>]
    /\ i' = 0
    /\ pc' = "ranges"
    /\ UNCHANGED <<check_state, manifest_structures, structures, start_index,
                   end_index, start_idx, end_idx>>
    /\ UNCHANGED <<uiVars, threadVars, inputVars, analyzeVars>>

\* line 193-207: one iteration of the loop over sorted(cover_indices)
MainRange ==
    /\ entry = "app5" /\ pc = "ranges"
    /\ i < Len(cover_pages_indices)
    /\ start_idx' = StartIdx(cover_pages_indices, i)
    /\ end_idx' = EndIdx(cover_pages_indices, i, total_pages)
    /\ out_file' = [out_file EXCEPT !.lines =
                      WriteLine(out_file.lines,
                                GetIdFromCanvas(canvases[start_idx' + 1]),
                                GetIdFromCanvas(canvases[end_idx' + 1]))]
    /\ i' = i + 1
    /\ UNCHANGED <<pc, check_state, manifest_structures, structures, start_index,
                   end_index>>
    /\ UNCHANGED <<uiVars, threadVars, inputVars, analyzeVars>>

\* line 208-213: the file is closed, main returns
MainClose ==
    /\ entry = "app5" /\ pc = "ranges"
    /\ i = Len(cover_pages_indices)
    /\ pc' = "exit"
    /\ UNCHANGED <<i, segmentVars, uiVars, threadVars, inputVars, analyzeVars>>

(***************************************************************************)
(* SpecSegment: the range loops, started from the states an analysis can   *)
(* leave behind.                                                           *)
(*   app.py   save_manifest is called from the editor, whose check marks   *)
(*            the user can toggle for every page of the manifest: any set  *)
(*            of pages can be checked.  The manifest may have come with a  *)
(*            `structures` field of its own.  save_manifest reads neither  *)
(*            the images of a canvas nor analysis_results.                 *)
(*   app5.py  main gets the covers analyze_manifest found: pages of the    *)
(*            analysed range whose image was fetched, in ascending order.  *)
(*            main reads no canvas @id.                                    *)
(***************************************************************************)
\* the elements of a set of numbers in ascending order
RECURSIVE Ascending(_)
Ascending(S) ==
    IF S = {} THEN <<>>
    ELSE LET least == CHOOSE x \in S : \A y \in S : x <= y
         IN  <<least>> \o Ascending(S \ {least})

PreExisting == [present |-> TRUE,
                ranges |-> <<[range_id |-> <<"p">>, label |-> 0,
                              canvases |-> <<NoId>>]>>]

InitSegment ==
    /\ entry \in {"app", "app5"}
    /\ manifest_at_id = AtId(<<"m">>)
    /\ total_pages \in 1..MaxPages
    /\ start_page \in 1..total_pages
    /\ end_page \in start_page..total_pages
    /\ is_split_scan = FALSE
    /\ i = 0
    /\ analysis_results = <<>>
    /\ response = "unset"
    /\ image = "unset"
    /\ result = Unset
    /\ result_left = Unset
    /\ result_right = Unset
    /\ structures = <<>>
    /\ start_index = 0
    /\ end_index = 0
    /\ start_idx = 0
    /\ end_idx = 0
    /\ out_file = NoFile
    /\ SessionAt(0, "normal", IF entry = "app" THEN "open" ELSE "closed")
    /\ IF entry = "app"
       THEN /\ pc = "save"
            /\ \E has_id \in [1..total_pages -> BOOLEAN] :
                 canvases = [p \in 1..total_pages |-> CanvasOf(p, "service", has_id[p])]
            /\ check_state \in [1..total_pages -> BOOLEAN]
            /\ manifest_structures \in {NoStructures, PreExisting}
            /\ cover_pages_indices = <<>>
       ELSE /\ pc = "main"
            /\ \E kinds \in [1..total_pages -> ImageKinds] :
                 canvases = [p \in 1..total_pages |-> CanvasOf(p, kinds[p], TRUE)]
            /\ \E found \in SUBSET {p \in start_page..end_page :
                                      canvases[p].images = "service"} :
                 cover_pages_indices = Ascending({p - 1 : p \in found})
            /\ check_state = <<>>
            /\ manifest_structures = NoStructures

NextSegment ==
    \/ SaveNoCovers
    \/ SaveBegin
    \/ SaveRange
    \/ SaveAssign
    \/ MainNoCovers
    \/ MainOpen
    \/ MainRange
    \/ MainClose

SpecSegment == InitSegment /\ [][NextSegment]_vars

(***************************************************************************)
(* SpecBuild: save_manifest alone, over manifests whose "@id" is missing,  *)
(* empty, blank, or any short string with or without trailing slashes.     *)
(***************************************************************************)
\* the strings over IdChars of at most n characters
RECURSIVE StringsUpTo(_)
StringsUpTo(n) ==
    IF n = 0 THEN {<<>>}
    ELSE StringsUpTo(n - 1) \cup
         {Append(s, c) : s \in {t \in StringsUpTo(n - 1) : Len(t) = n - 1}, c \in IdChars}

InitBuild ==
    /\ entry = "app"
    /\ manifest_at_id \in {NoAtId} \cup {AtId(s) : s \in StringsUpTo(MaxIdLen)}
    /\ total_pages \in 1..MaxBuildPages
    /\ \E has_id \in [1..total_pages -> BOOLEAN] :
         canvases = [p \in 1..total_pages |-> CanvasOf(p, "service", has_id[p])]
    /\ start_page = 1
    /\ end_page = total_pages
    /\ is_split_scan = FALSE
    /\ pc = "save"
    /\ i = 0
    /\ analysis_results = <<>>
    /\ cover_pages_indices = <<>>
    /\ response = "unset"
    /\ image = "unset"
    /\ result = Unset
    /\ result_left = Unset
    /\ result_right = Unset
    /\ check_state \in [1..total_pages -> BOOLEAN]
    /\ manifest_structures = NoStructures
    /\ structures = <<>>
    /\ start_index = 0
    /\ end_index = 0
    /\ start_idx = 0
    /\ end_idx = 0
    /\ out_file = NoFile
    /\ SessionAt(0, "normal", "open")

NextBuild ==
    \/ SaveNoCovers
    \/ SaveBegin
    \/ SaveRange
    \/ SaveAssign

SpecBuild == InitBuild /\ [][NextBuild]_vars

(***************************************************************************)
(* app5.py: main and analyze_manifest before the loop.                     *)
(***************************************************************************)
\* line 173-174: if not load_model(): exit(1)
CliLoadModelFailed ==
    /\ entry = "app5" /\ pc = "start"
    /\ exit_code' = 1
    /\ last_log' = "model_error"
    /\ pc' = "exit"
    /\ UNCHANGED <<manifest, arg_start, arg_end, button1, button2, button3,
                   fetch_pc, editor, progress, analysis_of>>
    /\ UNCHANGED <<i, analyzeVars, segmentVars, threadVars, inputVars>>
    /\ UNCHANGED clicks

\* line 69-79: the manifest cannot be fetched or parsed: return [], None
CliManifestFailed ==
    /\ entry = "app5" /\ pc = "start"
    /\ last_log' = "manifest_error"
    /\ cover_pages_indices' = <<>>
    /\ pc' = "main"
    /\ UNCHANGED <<manifest, arg_start, arg_end, button1, button2, button3,
                   fetch_pc, editor, progress, analysis_of, exit_code>>
    /\ UNCHANGED <<i, analysis_results, response, image, result, result_left,
                   result_right, segmentVars, threadVars, inputVars>>
    /\ UNCHANGED clicks

\* line 81-83: if not canvases: return [], None
CliNoCanvases ==
    /\ entry = "app5" /\ pc = "start"
    /\ total_pages = 0
    /\ manifest' = 1
    /\ last_log' = "no_canvases"
    /\ cover_pages_indices' = <<>>
    /\ pc' = "main"
    /\ UNCHANGED <<arg_start, arg_end, button1, button2, button3,
                   fetch_pc, editor, progress, analysis_of, exit_code>>
    /\ UNCHANGED <<i, analysis_results, response, image, result, result_left,
                   result_right, segmentVars, threadVars, inputVars>>
    /\ UNCHANGED clicks

\* line 85: start_index = start_page - 1
CliStartIndex(s) == s.value - 1

\* line 86: end_index = end_page if end_page is not None else total_pages
CliEndIndex(e, total) == IF e.kind = "none" THEN total ELSE e.value

\* mutant of CliRangeOk: an end before the start passes
CliRangeOkNoOrder(s, e, total) ==
    /\ 0 <= CliStartIndex(s) /\ CliStartIndex(s) < total
    /\ CliEndIndex(e, total) <= total

\* line 88: 0 <= start_index < total_pages and start_index < end_index <= total_pages
CliRangeOk(s, e, total) ==
    /\ 0 <= CliStartIndex(s) /\ CliStartIndex(s) < total
    /\ CliStartIndex(s) < CliEndIndex(e, total) /\ CliEndIndex(e, total) <= total

\* line 88-90: the range is refused: return [], None
CliInvalidRange ==
    /\ entry = "app5" /\ pc = "start"
    /\ total_pages > 0
    /\ ~CliRangeOk(arg_start, arg_end, total_pages)
    /\ manifest' = 1
    /\ last_log' = "invalid_range"
    /\ cover_pages_indices' = <<>>
    /\ pc' = "main"
    /\ UNCHANGED <<arg_start, arg_end, button1, button2, button3,
                   fetch_pc, editor, progress, analysis_of, exit_code>>
    /\ UNCHANGED <<i, analysis_results, response, image, result, result_left,
                   result_right, segmentVars, threadVars, inputVars>>
    /\ UNCHANGED clicks

\* line 92-97: the range is taken: canvases_to_analyze = canvases[start_index:end_index]
CliRangeAccepted ==
    /\ entry = "app5" /\ pc = "start"
    /\ total_pages > 0
    /\ CliRangeOk(arg_start, arg_end, total_pages)
    /\ manifest' = 1
    /\ last_log' = "analysis_started"
    /\ start_page' = CliStartIndex(arg_start) + 1
    /\ end_page' = CliEndIndex(arg_end, total_pages)
    /\ cover_pages_indices' = <<>>
    /\ i' = 0
    /\ pc' = "loop"
    /\ UNCHANGED <<arg_start, arg_end, button1, button2, button3,
                   fetch_pc, editor, progress, analysis_of, exit_code>>
    /\ UNCHANGED <<analysis_results, response, image, result, result_left,
                   result_right, segmentVars, threadVars>>
    /\ UNCHANGED <<entry, manifest_at_id, canvases, total_pages, is_split_scan>>
    /\ UNCHANGED clicks

\* line 141, 176: analyze_manifest returns cover_pages_indices, canvases to main
CliReturn ==
    /\ entry = "app5" /\ pc = "returned"
    /\ pc' = "main"
    /\ UNCHANGED <<i, analyzeVars, segmentVars, uiVars, threadVars, inputVars>>

(***************************************************************************)
(* app.py: the session of the GUI.  The handlers of the buttons and the    *)
(* callbacks of root.after run in the main thread, one at a time;          *)
(* fetch_manifest and run_search run in worker threads.  A button answers  *)
(* a click only in state "normal"; while the editor window is open it      *)
(* holds the grab, so the main window answers no click.                    *)
(***************************************************************************)
\* mutant of ToggleUi: button1 is never disabled
ToggleUiKeepsButton1(state) ==
    [button1 |-> "normal",
     button2 |-> IF state = "disabled" \/ ~(total_pages > 0)
                 THEN "disabled" ELSE "normal",
     button3 |-> IF state = "disabled" \/ analysis_results = <<>>
                 THEN "disabled" ELSE "normal"]

\* line 97-109: the states toggle_ui(state) gives the buttons
ToggleUi(state) ==
    [button1 |-> state,
     button2 |-> IF state = "disabled" \/ ~(total_pages > 0)
                 THEN "disabled" ELSE "normal",
     button3 |-> IF state = "disabled" \/ analysis_results = <<>>
                 THEN "disabled" ELSE "normal"]

\* the main loop dispatches a click on a button of the main window
Click == clicks < MaxClicks /\ clicks' = clicks + 1

\* save_manifest is running in the main thread (the editor's save button)
Saving == pc \in {"save", "ranges", "written"}

\* line 121-124: start_fetch
StartFetch ==
    /\ entry = "app"
    /\ Click
    /\ button1 = "normal" /\ editor = "closed"
    /\ button1' = ToggleUi("disabled").button1
    /\ button2' = ToggleUi("disabled").button2
    /\ button3' = ToggleUi("disabled").button3
    /\ analysis_results' = <<>>
    /\ analysis_of' = 0
    /\ fetch_pc' = "running"
    /\ threads' = threads + 1
    /\ last_log' = "fetching"
    /\ arg_start' = NoText /\ arg_end' = NoText
    /\ UNCHANGED <<manifest, editor, progress, exit_code>>
    /\ UNCHANGED <<pc, i, cover_pages_indices, response, image, result, result_left,
                   result_right, segmentVars, after_queue, inputVars>>

\* line 127-131: the URL field is empty
FetchEmptyUrl ==
    /\ entry = "app" /\ fetch_pc = "running"
    /\ last_log' = "empty_url"
    /\ after_queue' = Append(after_queue, Callback("toggle_ui", 0))
    /\ fetch_pc' = "idle"
    /\ threads' = threads - 1
    /\ UNCHANGED <<manifest, arg_start, arg_end, button1, button2, button3, editor,
                   progress, analysis_of, exit_code>>
    /\ UNCHANGED <<pc, i, analyzeVars, segmentVars, inputVars>>
    /\ UNCHANGED clicks

\* line 133-148, 153-154: the manifest is fetched; it has n pages
FetchLoaded ==
    /\ entry = "app" /\ fetch_pc = "running"
    /\ manifest' = IF manifest = 1 THEN 2 ELSE 1
    /\ \E n \in 0..MaxRunPages :
         /\ total_pages' = n
         /\ \E kinds \in [1..n -> ImageKinds] :
              canvases' = [p \in 1..n |-> CanvasOf(p, kinds[p], TRUE)]
         /\ last_log' = IF n = 0 THEN "no_pages" ELSE "loaded"
    /\ manifest_structures' = NoStructures
    /\ after_queue' = Append(after_queue, Callback("toggle_ui", 0))
    /\ fetch_pc' = "idle"
    /\ threads' = threads - 1
    /\ UNCHANGED <<arg_start, arg_end, button1, button2, button3, editor, progress, analysis_of, exit_code>>
    /\ UNCHANGED <<pc, i, analyzeVars, check_state, structures, start_index, end_index,
                   start_idx, end_idx, out_file>>
    /\ UNCHANGED <<entry, manifest_at_id, start_page, end_page, is_split_scan>>
    /\ UNCHANGED clicks

\* line 149-154: the request or the parsing raises
FetchFailed ==
    /\ entry = "app" /\ fetch_pc = "running"
    /\ manifest' = 0
    /\ total_pages' = 0
    /\ last_log' = "fetch_error"
    /\ after_queue' = Append(after_queue, Callback("toggle_ui", 0))
    /\ fetch_pc' = "idle"
    /\ threads' = threads - 1
    /\ UNCHANGED <<arg_start, arg_end, button1, button2, button3, editor, progress,
                   analysis_of, exit_code>>
    /\ UNCHANGED <<pc, i, analyzeVars, segmentVars>>
    /\ UNCHANGED <<entry, manifest_at_id, canvases, start_page, end_page, is_split_scan>>
    /\ UNCHANGED clicks

\* the main loop runs the callback at the head of the queue
MainloopRuns(fn) ==
    /\ entry = "app"
    /\ ~Saving
    /\ after_queue # <<>>
    /\ Head(after_queue).fn = fn
    /\ after_queue' = Tail(after_queue)

\* root.after(0, self.toggle_ui, tk.NORMAL) of fetch_manifest
RunToggleUi ==
    /\ MainloopRuns("toggle_ui")
    /\ button1' = ToggleUi("normal").button1
    /\ button2' = ToggleUi("normal").button2
    /\ button3' = ToggleUi("normal").button3
    /\ UNCHANGED <<manifest, arg_start, arg_end, fetch_pc, editor, progress, analysis_of,
                   last_log, exit_code>>
    /\ UNCHANGED <<pc, i, analyzeVars, segmentVars, threads, inputVars>>
    /\ UNCHANGED clicks

\* line 252-254: update_progress(value)
RunUpdateProgress ==
    /\ MainloopRuns("update_progress")
    /\ progress' = Append(progress, Head(after_queue).arg)
    /\ UNCHANGED <<manifest, arg_start, arg_end, button1, button2, button3, fetch_pc,
                   editor, analysis_of, last_log, exit_code>>
    /\ UNCHANGED <<pc, i, analyzeVars, segmentVars, threads, inputVars>>
    /\ UNCHANGED clicks

\* line 256-273: show_summary; the frame of the run_search that scheduled it
\* is gone
RunShowSummary ==
    /\ MainloopRuns("show_summary")
    /\ button1' = ToggleUi("normal").button1
    /\ button2' = ToggleUi("normal").button2
    /\ button3' = ToggleUi("normal").button3
    /\ last_log' = "analysis_done"
    /\ pc' = "idle"
    /\ i' = 0
    /\ response' = "unset" /\ image' = "unset"
    /\ result' = Unset /\ result_left' = Unset /\ result_right' = Unset
    /\ UNCHANGED <<manifest, arg_start, arg_end, fetch_pc, editor, progress, analysis_of,
                   exit_code>>
    /\ UNCHANGED <<analysis_results, cover_pages_indices, segmentVars, threads, inputVars>>
    /\ UNCHANGED clicks

\* the texts start_search can find in start_entry and end_entry
EntryTexts == {IntArg(n) : n \in 0..(MaxRunPages + 1)} \cup {NoText}

\* mutant of AppRangeOk: a start after the end passes
AppRangeOkNoOrder(s, e, total) ==
    /\ 1 <= s /\ s <= total
    /\ 1 <= e /\ e <= total

\* line 161-169: the three checks of start_search
AppRangeOk(s, e, total) ==
    /\ 1 <= s /\ s <= total
    /\ 1 <= e /\ e <= total
    /\ ~(s > e)

\* line 161-169: the message of the first check that fails
AppRangeError(s, e, total) ==
    IF ~(1 <= s /\ s <= total) THEN "from_out_of_range"
    ELSE IF ~(1 <= e /\ e <= total) THEN "to_out_of_range"
    ELSE "from_after_to"

\* button2 answers a click: start_search reads the two entries
SearchClicked(s, e) ==
    /\ entry = "app"
    /\ button2 = "normal" /\ editor = "closed"
    /\ Click
    /\ arg_start' = s
    /\ arg_end' = e

\* line 158-159, 170-172: int() raises ValueError for the start (the end is
\* not read) or for the end
StartSearchNotNumber ==
    /\ \E s \in EntryTexts, e \in EntryTexts :
         /\ SearchClicked(s, e)
         /\ \/ s.kind = "text" /\ e.kind = "text"
            \/ s.kind = "int" /\ e.kind = "text"
    /\ last_log' = "not_a_number"
    /\ UNCHANGED <<manifest, button1, button2, button3, fetch_pc, editor, progress,
                   analysis_of, exit_code>>
    /\ UNCHANGED <<pc, i, analyzeVars, segmentVars, threadVars, inputVars>>

\* line 161-169: a check fails: the message is logged, start_search returns
StartSearchRejected ==
    /\ \E s \in EntryTexts, e \in EntryTexts :
         /\ SearchClicked(s, e)
         /\ s.kind = "int" /\ e.kind = "int"
         /\ ~AppRangeOk(s.value, e.value, total_pages)
         /\ last_log' = AppRangeError(s.value, e.value, total_pages)
    /\ UNCHANGED <<manifest, button1, button2, button3, fetch_pc, editor, progress,
                   analysis_of, exit_code>>
    /\ UNCHANGED <<pc, i, analyzeVars, segmentVars, threadVars, inputVars>>

\* line 174-178: the controls are disabled, the bar is set to 0, the run_search
\* thread is started with (start_page, end_page)
StartSearchAccepted ==
    /\ \E s \in EntryTexts, e \in EntryTexts :
         /\ SearchClicked(s, e)
         /\ s.kind = "int" /\ e.kind = "int"
         /\ AppRangeOk(s.value, e.value, total_pages)
         /\ start_page' = s.value
         /\ end_page' = e.value
    /\ button1' = ToggleUi("disabled").button1
    /\ button2' = ToggleUi("disabled").button2
    /\ button3' = ToggleUi("disabled").button3
    /\ progress' = <<>>
    /\ threads' = threads + 1
    /\ pc' = "started"
    /\ last_log' = "analysis_started"
    /\ UNCHANGED <<manifest, fetch_pc, editor, analysis_of, exit_code>>
    /\ UNCHANGED <<i, analyzeVars, segmentVars, after_queue>>
    /\ UNCHANGED <<entry, manifest_at_id, canvases, total_pages, is_split_scan>>

\* line 181-192: run_search reads the split-scan option (is_split_scan), slices the canvases
\* and empties analysis_results
RunSearchBegin ==
    /\ entry = "app" /\ pc = "started"
    /\ analysis_results' = <<>>
    /\ analysis_of' = manifest
    /\ i' = 0
    /\ pc' = "loop"
    /\ UNCHANGED <<manifest, arg_start, arg_end, button1, button2, button3, fetch_pc,
                   editor, progress, last_log, exit_code>>
    /\ UNCHANGED <<cover_pages_indices, response, image, result, result_left,
                   result_right, segmentVars, threadVars>>
    /\ UNCHANGED inputVars
    /\ UNCHANGED clicks

\* line 306-315: the check mark of page p when the editor opens
InitialCheck(p) ==
    \E k \in 1..Len(analysis_results) :
        analysis_results[k].page_num = p /\ analysis_results[k].is_cover

\* line 275-353: open_editor
OpenEditor ==
    /\ entry = "app"
    /\ Click
    /\ button3 = "normal" /\ editor = "closed"
    /\ IF manifest = 0
       THEN /\ last_log' = "load_manifest_first"
            /\ UNCHANGED <<editor, check_state>>
       ELSE /\ editor' = "open"
            /\ check_state' = [p \in 1..total_pages |-> InitialCheck(p)]
            /\ last_log' = "editor_opened"
    /\ arg_start' = NoText /\ arg_end' = NoText
    /\ UNCHANGED <<manifest, button1, button2, button3, fetch_pc,
                   progress, analysis_of, exit_code>>
    /\ UNCHANGED <<pc, i, analyzeVars, manifest_structures, structures, start_index,
                   end_index, start_idx, end_idx, out_file, threadVars, inputVars>>

\* line 349-352, 355-359: the save button calls save_manifest
SaveClicked ==
    /\ entry = "app" /\ editor = "open" /\ ~Saving
    /\ IF manifest = 0
       THEN /\ editor' = "closed"
            /\ last_log' = "no_manifest_to_save"
            /\ UNCHANGED pc
       ELSE /\ pc' = "save"
            /\ UNCHANGED <<editor, last_log>>
    /\ UNCHANGED <<manifest, arg_start, arg_end, button1, button2, button3, fetch_pc,
                   progress, analysis_of, exit_code>>
    /\ UNCHANGED <<i, analyzeVars, segmentVars, threadVars, inputVars>>
    /\ UNCHANGED clicks

\* line 398-416: the file dialog, the file is written or the dialog cancelled,
\* editor_win.destroy(); save_manifest returns, its frame is gone.  The check
\* marks go with the window: open_editor makes them anew (line 305).
SaveFinished ==
    /\ entry = "app" /\ editor = "open" /\ pc = "written"
    /\ editor' = "closed"
    /\ last_log' = "saved"
    /\ pc' = "idle"
    /\ i' = 0
    /\ structures' = <<>>
    /\ start_index' = 0
    /\ end_index' = 0
    /\ check_state' = <<>>
    /\ UNCHANGED <<manifest, arg_start, arg_end, button1, button2, button3, fetch_pc,
                   progress, analysis_of, exit_code>>
    /\ UNCHANGED <<analyzeVars, manifest_structures, start_idx, end_idx,
                   out_file, threadVars, inputVars>>
    /\ UNCHANGED clicks

\* the user closes the editor window; the check marks go with it
CloseEditor ==
    /\ entry = "app" /\ editor = "open" /\ ~Saving
    /\ editor' = "closed"
    /\ check_state' = <<>>
    /\ UNCHANGED <<manifest, arg_start, arg_end, button1, button2, button3, fetch_pc,
                   progress, analysis_of, last_log, exit_code>>
    /\ UNCHANGED <<pc, i, analyzeVars, manifest_structures, structures, start_index,
                   end_index, start_idx, end_idx, out_file, threadVars, inputVars>>
    /\ UNCHANGED clicks

(***************************************************************************)
(* SpecRun: a session of the GUI from the state __init__ leaves, and a run *)
(* of the CLI from main, with any range arguments.  The canvases of the    *)
(* GUI's manifests all have an "@id" and the user leaves the editor's      *)
(* check marks as the analysis set them (SpecSegment and SpecBuild cover   *)
(* the other manifests and marks); the split-scan option is off            *)
(* (SpecAnalyze covers it).                                                *)
(***************************************************************************)
\* the values of --start and --end (argparse: type=int; --end defaults to None)
CliStarts == {IntArg(n) : n \in 0..(MaxRunPages + 1)}

CliEnds == {IntArg(n) : n \in 0..(MaxRunPages + 1)} \cup {NoneArg}

InitRun ==
    /\ entry \in {"app", "app5"}
    /\ manifest_at_id = AtId(<<"m">>)
    /\ start_page = 0
    /\ end_page = 0
    /\ i = 0
    /\ analysis_results = <<>>
    /\ cover_pages_indices = <<>>
    /\ response = "unset"
    /\ image = "unset"
    /\ result = Unset
    /\ result_left = Unset
    /\ result_right = Unset
    /\ check_state = <<>>
    /\ manifest_structures = NoStructures
    /\ structures = <<>>
    /\ start_index = 0
    /\ end_index = 0
    /\ start_idx = 0
    /\ end_idx = 0
    /\ out_file = NoFile
    /\ after_queue = <<>>
    /\ threads = 0
    /\ manifest = 0
    /\ button2 = "disabled"
    /\ button3 = "disabled"
    /\ fetch_pc = "idle"
    /\ editor = "closed"
    /\ progress = <<>>
    /\ analysis_of = 0
    /\ last_log = "none"
    /\ exit_code = 0
    /\ clicks = 0
    /\ IF entry = "app"
       THEN /\ pc = "idle"
            /\ canvases = <<>>
            /\ total_pages = 0
            /\ is_split_scan = FALSE
            /\ arg_start = NoText
            /\ arg_end = NoText
            /\ button1 = "normal"
       ELSE /\ pc = "start"
            /\ total_pages \in 0..MaxRunPages
            /\ \E kinds \in [1..total_pages -> ImageKinds] :
                 canvases = [p \in 1..total_pages |-> CanvasOf(p, kinds[p], TRUE)]
            /\ is_split_scan = FALSE
            /\ arg_start \in CliStarts
            /\ arg_end \in CliEnds
            /\ button1 = "disabled"

NextRun ==
    \/ StartFetch
    \/ FetchEmptyUrl
    \/ FetchLoaded
    \/ FetchFailed
    \/ RunToggleUi
    \/ RunUpdateProgress
    \/ RunShowSummary
    \/ StartSearchNotNumber
    \/ StartSearchRejected
    \/ StartSearchAccepted
    \/ RunSearchBegin
    \/ AppNoImageUrl
    \/ AppImagesIndexError
    \/ AppFetchFail
    \/ AppClassifyWhole
    \/ AppLoopEnd
    \/ OpenEditor
    \/ SaveClicked
    \/ SaveNoCovers
    \/ SaveBegin
    \/ SaveRange
    \/ SaveAssign
    \/ SaveFinished
    \/ CloseEditor
    \/ CliLoadModelFailed
    \/ CliManifestFailed
    \/ CliNoCanvases
    \/ CliInvalidRange
    \/ CliRangeAccepted
    \/ CliNoImageUrl
    \/ CliFetchFail
    \/ CliClassifyWhole
    \/ CliLoopEnd
    \/ CliReturn
    \/ MainNoCovers
    \/ MainOpen
    \/ MainRange
    \/ MainClose

SpecRun == InitRun /\ [][NextRun]_vars

(***************************************************************************)
(* Properties of the analysis run (SpecAnalyze).                           *)
(***************************************************************************)
RunEnded == pc \in {"summary", "crashed", "returned"}

\* a page of the run was processed, and it is the one the locals describe
PageProcessed == i > 0

\* the verdict the run holds for the page it processed last
LastIsCover ==
    IF entry = "app"
    THEN analysis_results # <<>> /\ analysis_results[Len(analysis_results)].is_cover
    ELSE /\ cover_pages_indices # <<>>
         /\ cover_pages_indices[Len(cover_pages_indices)] = start_page - 1 + (i - 1)

HalfIsCover(r) == r.kind = "ok" /\ r.is_cover

HalfFailed(r) == r.kind # "ok"

\* the fetch of the page failed, or no classification of it gave a result
LastPageFailed ==
    \/ response = "failed"
    \/ response = "ok" /\ ~is_split_scan /\ HalfFailed(result)
    \/ response = "ok" /\ is_split_scan /\ image = "bad"
    \/ response = "ok" /\ is_split_scan /\ image = "ok"
         /\ HalfFailed(result_left) /\ HalfFailed(result_right)

\* the page was fetched and every classification of it gave a result
LastPageSucceeded ==
    /\ response = "ok"
    /\ IF is_split_scan
       THEN image = "ok" /\ ~HalfFailed(result_left) /\ ~HalfFailed(result_right)
       ELSE ~HalfFailed(result)

\* C1: when the run has ended there is exactly one verdict per requested page,
\* in page order (app.py: one record of analysis_results per page; app5.py,
\* which keeps only the covers: the cover list is strictly ascending within the
\* requested range), whatever pages lack an image locator, fail to fetch or
\* fail to classify.
C1_OneVerdictPerPage ==
    RunEnded =>
      IF entry = "app"
      THEN /\ Len(analysis_results) = end_page - start_page + 1
           /\ \A k \in 1..Len(analysis_results) :
                analysis_results[k].page_num = start_page + k - 1
      ELSE /\ \A k \in 1..Len(cover_pages_indices) :
                cover_pages_indices[k] + 1 \in start_page..end_page
           /\ \A k \in 1..(Len(cover_pages_indices) - 1) :
                cover_pages_indices[k] < cover_pages_indices[k + 1]

\* C2: every step that processes a page with an image locator leaves the run in
\* its loop, one page further.  If the fetch or the classification of the page
\* failed, the earlier verdicts are untouched and the page has the default
\* verdict (no cover, confidence 0); if the page was fetched and classified, it
\* has exactly the classifier's verdict, whatever happened to the pages before.
C2_FailureIsolated ==
    [][ (pc = "loop" /\ i < TotalToProcess /\ CurrentCanvas.images = "service") =>
          /\ pc' = "loop"
          /\ i' = i + 1
          /\ LastPageFailed' =>
               /\ IF entry = "app"
                  THEN /\ Len(analysis_results') = Len(analysis_results) + 1
                       /\ SubSeq(analysis_results', 1, Len(analysis_results)) = analysis_results
                       /\ analysis_results'[Len(analysis_results')].page_num = start_page + i
                       /\ analysis_results'[Len(analysis_results')].is_cover = FALSE
                       /\ analysis_results'[Len(analysis_results')].prob = 0
                  ELSE cover_pages_indices' = cover_pages_indices
          /\ LastPageSucceeded' =>
               /\ IF entry = "app"
                  THEN /\ SubSeq(analysis_results', 1, Len(analysis_results)) = analysis_results
                       /\ analysis_results'[Len(analysis_results')].page_num = start_page + i
                       /\ analysis_results'[Len(analysis_results')].is_cover =
                            IF is_split_scan
                            THEN result_left'.is_cover \/ result_right'.is_cover
                            ELSE result'.is_cover
                       /\ analysis_results'[Len(analysis_results')].prob =
                            IF is_split_scan
                            THEN Max(result_left'.prob, result_right'.prob)
                            ELSE result'.prob
                  ELSE cover_pages_indices' =
                         IF \/ ~is_split_scan /\ result'.is_cover
                            \/ is_split_scan /\ (result_left'.is_cover \/ result_right'.is_cover)
                         THEN Append(cover_pages_indices, start_page - 1 + i)
                         ELSE cover_pages_indices
      ]_vars

\* C2 witness: a page with an image locator got the default verdict (its fetch
\* or classification failed) and the page after it was classified as a cover.
C2_Witness ==
    /\ entry = "app"
    /\ \E k \in 1..(Len(analysis_results) - 1) :
         /\ canvases[analysis_results[k].page_num].images = "service"
         /\ analysis_results[k].prob = 0
         /\ analysis_results[k + 1].is_cover
         /\ analysis_results[k + 1].prob > 0

\* C3: in split-scan mode the halves decide independently: the page is reported
\* as a cover exactly when a half was classified as a cover, a half that failed
\* to classify counting as no cover with confidence 0.
C3_HalvesIndependent ==
    (PageProcessed /\ is_split_scan /\ response = "ok" /\ image = "ok") =>
      /\ LastIsCover <=> (HalfIsCover(result_left) \/ HalfIsCover(result_right))
      /\ entry = "app" =>
           analysis_results[Len(analysis_results)].prob =
             Max(IF HalfFailed(result_left) THEN 0 ELSE result_left.prob,
                 IF HalfFailed(result_right) THEN 0 ELSE result_right.prob)

(***************************************************************************)
(* Properties of the range loops (SpecSegment).  Pages are 1-based here;   *)
(* identifiers are the page numbers of the canvases they name.             *)
(***************************************************************************)
SegmentDone == pc \in {"written", "exit"}

\* the covers the ranges are built from, as page numbers
CoverSet ==
    IF entry = "app"
    THEN {p \in DOMAIN check_state : check_state[p]}
    ELSE {cover_pages_indices[k] + 1 : k \in 1..Len(cover_pages_indices)}

MinOf(S) == CHOOSE x \in S : \A y \in S : x <= y

MaxOf(S) == CHOOSE x \in S : \A y \in S : x >= y

FirstCover == MinOf(CoverSet)

\* the last page of the range that starts at cover c: the page before the next
\* cover, or the last page of the volume
RangeEndOf(c) ==
    IF \E d \in CoverSet : d > c
    THEN MinOf({d \in CoverSet : d > c}) - 1
    ELSE total_pages

\* the cover whose range page p lies in (p >= FirstCover)
CoverOf(p) == MaxOf({c \in CoverSet : c <= p})

\* the range loop has computed a range: the bounds its last iteration computed
ComputedStart == IF entry = "app" THEN start_index + 1 ELSE start_idx + 1

ComputedEnd == IF entry = "app" THEN end_index ELSE end_idx + 1

\* the page has an identifier (app.py: the canvas @id; app5.py: the service id)
HasId(p) ==
    IF entry = "app" THEN canvases[p].id # NoId ELSE canvases[p].service_id # NoId

Members(record) == {record.canvases[k] : k \in 1..Len(record.canvases)}

\* the ranges emitted so far, [start, end]: app5.py: the written lines;
\* app.py: the records, each from its label to the end of the range it was built for
Emitted ==
    IF entry = "app"
    THEN [k \in 1..Len(structures) |->
            [start |-> structures[k].label, end |-> RangeEndOf(structures[k].label)]]
    ELSE [k \in 1..Len(out_file.lines) |->
            [start |-> out_file.lines[k][1], end |-> out_file.lines[k][2]]]

\* the pages the emitted ranges hold: the members of the records (app.py),
\* the pages from start to end of the lines (app5.py)
CoveredPages ==
    IF entry = "app"
    THEN UNION {Members(structures[k]) : k \in 1..Len(structures)}
    ELSE UNION {out_file.lines[k][1]..out_file.lines[k][2] : k \in 1..Len(out_file.lines)}

\* C4: the i-th iteration of the range loop computes the range of the i-th
\* smallest cover: it starts at that cover and ends before the next cover or, for
\* the last cover, at total_pages; the loop ends after one iteration per cover;
\* and when every page has an identifier, one range per cover is emitted, from
\* the cover to that end.  The loops' end computation gives, for covers {3, 7}
\* of 10 pages, the ranges [3, 6] and [7, 10] (0-based in app5.py: [2, 5], [6, 9]).
C4_RangePerCover ==
    /\ EndPage(<<3, 7>>, 0, 10) = 6 /\ EndPage(<<3, 7>>, 1, 10) = 10
    /\ EndIdx(<<2, 6>>, 0, 10) = 5 /\ EndIdx(<<2, 6>>, 1, 10) = 9
    /\ (pc = "ranges" /\ i > 0) \/ (SegmentDone /\ CoverSet # {}) =>
         /\ ComputedStart \in CoverSet
         /\ Cardinality({d \in CoverSet : d < ComputedStart}) = i - 1
         /\ ComputedEnd = RangeEndOf(ComputedStart)
    /\ (SegmentDone /\ CoverSet # {}) =>
         /\ i = Cardinality(CoverSet)
         /\ ComputedEnd = total_pages
    /\ (SegmentDone /\ \A p \in 1..total_pages : HasId(p)) =>
         IF entry = "app"
         THEN /\ Len(structures) = Cardinality(CoverSet)
              /\ \A k \in 1..Len(structures) :
                   /\ structures[k].label = Ascending(CoverSet)[k]
                   /\ structures[k].canvases =
                        Ascending(structures[k].label..RangeEndOf(structures[k].label))
         ELSE /\ Len(out_file.lines) = Cardinality(CoverSet)
              /\ \A k \in 1..Len(out_file.lines) :
                   /\ out_file.lines[k][1] = Ascending(CoverSet)[k]
                   /\ out_file.lines[k][2] = RangeEndOf(out_file.lines[k][1])

\* C4 witness: the loop is over after two or more ranges, the analysed range
\* ended before the last page, and the last range ends at the last page.
C4_Witness ==
    /\ SegmentDone
    /\ i >= 2
    /\ end_page < total_pages
    /\ ComputedEnd = total_pages
    /\ Len(Emitted) >= 2
    /\ Emitted[Len(Emitted)].end = total_pages

\* C5 as claimed: the emitted ranges are sorted by start, do not overlap and
\* leave no gap: each ends right before the next one starts.
C5_GapFree ==
    \A k \in 1..(Len(Emitted) - 1) :
      /\ Emitted[k].start < Emitted[k + 1].start
      /\ Emitted[k].end < Emitted[k + 1].start
      /\ Emitted[k].end + 1 = Emitted[k + 1].start

\* C5 as amended: the emitted ranges are sorted by start and do not overlap;
\* the pages between two consecutive emitted ranges are pages of ranges that
\* were dropped for lack of an identifier, so two consecutive emitted ranges
\* adjoin exactly when no range between them was dropped.
C5_SortedDisjoint ==
    IF entry = "app"
    THEN \A k \in 1..(Len(structures) - 1) :
           /\ structures[k].label < structures[k + 1].label
           /\ \A m \in Members(structures[k]) :
                structures[k].label <= m /\ m < structures[k + 1].label
           /\ \A m \in Members(structures[k + 1]) : structures[k + 1].label <= m
           /\ \A p \in structures[k].label..(structures[k + 1].label - 1) :
                HasId(p) => p \in Members(structures[k])
           /\ (RangeEndOf(structures[k].label) + 1 = structures[k + 1].label) <=>
                ~ \E c \in CoverSet :
                    structures[k].label < c /\ c < structures[k + 1].label
    ELSE \A k \in 1..(Len(out_file.lines) - 1) :
           /\ out_file.lines[k][1] <= out_file.lines[k][2]
           /\ out_file.lines[k][2] < out_file.lines[k + 1][1]
           /\ out_file.lines[k + 1][1] <= out_file.lines[k + 1][2]
           /\ \A p \in (out_file.lines[k][2] + 1)..(out_file.lines[k + 1][1] - 1) :
                /\ p >= FirstCover
                /\ ~HasId(RangeEndOf(CoverOf(p)))
           /\ (out_file.lines[k][2] + 1 = out_file.lines[k + 1][1]) <=>
                ~ \E c \in CoverSet :
                    out_file.lines[k][1] < c /\ c < out_file.lines[k + 1][1]

\* C5 witness: the loop is over, two consecutive emitted ranges adjoin and two
\* others are separated by a dropped range.
C5_Witness ==
    /\ SegmentDone
    /\ \E k \in 1..(Len(Emitted) - 1) : Emitted[k].end + 1 = Emitted[k + 1].start
    /\ \E k \in 1..(Len(Emitted) - 1) : Emitted[k].end + 1 < Emitted[k + 1].start

\* C6 as claimed: with at least one cover, the emitted ranges together hold
\* exactly the pages from the first analysed page to the last page (stated for
\* the runs in which every page has an identifier, so that no range is lost, and
\* every cover lies in the analysed range).
C6_CoverFromAnalysedStart ==
    (/\ SegmentDone
     /\ CoverSet # {}
     /\ CoverSet \subseteq start_page..end_page
     /\ \A p \in 1..total_pages : HasId(p)) =>
      /\ CoveredPages = start_page..total_pages
      /\ Emitted[1].start = start_page
      /\ Emitted[Len(Emitted)].end = total_pages

\* C6 as amended: with at least one cover, the computed ranges run from the
\* first cover (not from the first analysed page) to the last page, and the
\* emitted ranges hold exactly the pages from the first cover to the last page
\* except those lost for lack of an identifier: in app5.py the pages of a range
\* whose end page has none, in app.py the pages that have none.
C6_CoverFromFirstCover ==
    (SegmentDone /\ CoverSet # {}) =>
      /\ CoveredPages =
           {p \in FirstCover..total_pages :
              IF entry = "app" THEN HasId(p) ELSE HasId(RangeEndOf(CoverOf(p)))}
      /\ Emitted # <<>> =>
           /\ Emitted[1].start >= FirstCover
           /\ HasId(RangeEndOf(FirstCover)) => Emitted[1].start = FirstCover
           /\ HasId(total_pages) => Emitted[Len(Emitted)].end = total_pages

\* C6 witness: the loop is over, analysed pages precede the first cover, and the
\* emitted ranges hold every page from the first cover to the last page.
C6_Witness ==
    /\ SegmentDone
    /\ CoverSet # {}
    /\ start_page < FirstCover
    /\ FirstCover < total_pages
    /\ CoveredPages = FirstCover..total_pages

\* C7: every emitted range starts at a cover, and no page before the first
\* cover is a member or an end point of an emitted range; with no cover
\* nothing is emitted.
C7_AnchoredAtCover ==
    /\ CoverSet = {} => Emitted = <<>>
    /\ \A k \in 1..Len(Emitted) :
         /\ Emitted[k].start \in CoverSet
         /\ Emitted[k].start >= FirstCover
         /\ Emitted[k].end >= FirstCover
    /\ \A p \in CoveredPages : p >= FirstCover

\* C7 witness: the loop is over, ranges were emitted, and analysed pages
\* precede the first cover.
C7_Witness ==
    /\ SegmentDone
    /\ Emitted # <<>>
    /\ start_page < FirstCover
    /\ 1 \notin CoveredPages

\* C8: the written document never has a `structures` field that is an empty
\* array: without covers, or without any record, the field is absent.
C8_NoEmptyStructures ==
    (entry = "app" /\ pc = "written") =>
      /\ manifest_structures.present => manifest_structures.ranges # <<>>
      /\ CoverSet = {} => ~manifest_structures.present

\* C9: a range is emitted only if its start page and its end page both have an
\* identifier, and every range whose start and end page have one is emitted.
C9_BothEndsResolved ==
    /\ \A k \in 1..Len(Emitted) : HasId(Emitted[k].start) /\ HasId(Emitted[k].end)
    /\ SegmentDone =>
         \A c \in CoverSet :
           (HasId(c) /\ HasId(RangeEndOf(c))) =>
             \E k \in 1..Len(Emitted) : Emitted[k].start = c

\* C10: the members of each record are exactly the identifiers of the pages of
\* its range that have one, in ascending page order; no record is empty, no page
\* is in two records; and, when the loop is over, a cover has a record exactly
\* when a page of its range has an identifier.  The written `structures` field
\* is that list of records.
C10_MembersOfSpan ==
    entry = "app" =>
      /\ \A k \in 1..Len(structures) :
           /\ structures[k].label \in CoverSet
           /\ structures[k].canvases =
                Ascending({p \in structures[k].label..RangeEndOf(structures[k].label) :
                             HasId(p)})
           /\ structures[k].canvases # <<>>
      /\ \A k1, k2 \in 1..Len(structures) :
           k1 # k2 => Members(structures[k1]) \cap Members(structures[k2]) = {}
      /\ (SegmentDone /\ CoverSet # {}) =>
           /\ {structures[k].label : k \in 1..Len(structures)} =
                {c \in CoverSet : \E p \in c..RangeEndOf(c) : HasId(p)}
           /\ manifest_structures = [present |-> TRUE, ranges |-> structures]

\* C10 witness: the document is written with a record that lacks a page of its
\* range (the page has no identifier) and without a record for some cover.
C10_Witness ==
    /\ entry = "app"
    /\ pc = "written"
    /\ \E k \in 1..Len(structures) :
         Len(structures[k].canvases) <
           RangeEndOf(structures[k].label) - structures[k].label + 1
    /\ Len(structures) >= 2
    /\ Len(structures) < Cardinality(CoverSet)

(***************************************************************************)
(* Properties of the records' identifiers (SpecBuild).                     *)
(***************************************************************************)
\* s without the slashes it ends in: its prefix up to the last character that
\* is no slash
WithoutTrailingSlashes(s) ==
    LET n == CHOOSE n \in 0..Len(s) :
                 /\ n = 0 \/ s[n] # "/"
                 /\ \A m \in (n + 1)..Len(s) : s[m] = "/"
    IN  SubSeq(s, 1, n)

\* the 0-based position of the range of cover c among the ranges in ascending
\* start order
RangeIndexOf(c) == Cardinality({d \in CoverSet : d < c})

\* the identifier the i-th range is to have in namespace ns (i < 10)
ExpectedRangeId(ns, n) ==
    WithoutTrailingSlashes(ns) \o <<"/", "r", "a", "n", "g", "e", "/", "r">>
        \o <<Digits[n + 1]>>

\* C11: the record built for the i-th range (0-indexed, in ascending start
\* order) has the identifier "<namespace without its trailing slashes>/range/r<i>",
\* the namespace being the base identifier save_manifest takes from the
\* manifest; the identifiers of the emitted records are pairwise distinct,
\* also when ranges without members are left out.
C11_RangeIds ==
    entry = "app" =>
      /\ \A k \in 1..Len(structures) :
           structures[k].range_id =
             ExpectedRangeId(BaseId, RangeIndexOf(structures[k].label))
      /\ \A k1, k2 \in 1..Len(structures) :
           k1 # k2 => structures[k1].range_id # structures[k2].range_id

\* C11 witness: the document is written from a manifest whose "@id" ends in a
\* slash, with two records, one of them after a range that was left out (its
\* index is not its position in the list).
C11_Witness ==
    /\ entry = "app"
    /\ pc = "written"
    /\ manifest_at_id.present
    /\ BaseId = manifest_at_id.value
    /\ BaseId[Len(BaseId)] = "/"
    /\ Len(structures) >= 2
    /\ \E k \in 1..Len(structures) : RangeIndexOf(structures[k].label) # k - 1

(***************************************************************************)
(* Properties of whole runs (SpecRun).                                     *)
(***************************************************************************)
\* the end of the range the caller asks for: the end given, or the last page
\* when none is given (app5.py without --end)
RequestedEnd(e, total) == IF e.kind = "none" THEN total ELSE e.value

InvalidRange(s, e, total) == s < 1 \/ e > total \/ s > e

ValidRange(s, e, total) == 1 <= s /\ s <= e /\ e <= total

\* a step in which the program examines a range the caller supplied: app.py:
\* a click on button2 with two numbers in the entries; app5.py:
\* analyze_manifest has fetched the manifest
GuiRangeRequest ==
    /\ entry = "app"
    /\ clicks' = clicks + 1
    /\ arg_start'.kind = "int" /\ arg_end'.kind = "int"

CliRangeRequest == entry = "app5" /\ pc = "start" /\ manifest' = 1

\* the step fetches and classifies no page, reports no progress, starts no
\* worker and leaves the results as they were
NothingProcessed ==
    /\ UNCHANGED <<analysis_results, cover_pages_indices, i, response, image, result,
                   result_left, result_right>>
    /\ UNCHANGED <<progress, after_queue, threads, start_page, end_page, out_file>>
    /\ UNCHANGED <<button1, button2, button3>>
    /\ pc' \notin {"started", "loop"}

\* C12: a range with start < 1, end > total_pages or start > end is rejected
\* before any processing: the step that examines it fetches and classifies no
\* page, reports no progress and leaves the accumulated results unchanged, and
\* (app5.py) no later step of the run processes a page; every range with
\* 1 <= start <= end <= total_pages, start = end included, is accepted: the
\* analysis of exactly that range is started.
C12_RangeChecked ==
    [][
        /\ GuiRangeRequest =>
             IF ValidRange(arg_start'.value, arg_end'.value, total_pages)
             THEN /\ pc' = "started"
                  /\ threads' = threads + 1
                  /\ start_page' = arg_start'.value
                  /\ end_page' = arg_end'.value
                  /\ UNCHANGED analysis_results
             ELSE /\ NothingProcessed
                  /\ pc' = pc
        /\ CliRangeRequest =>
             IF ValidRange(arg_start.value, RequestedEnd(arg_end, total_pages), total_pages)
             THEN /\ pc' = "loop"
                  /\ i' = 0
                  /\ start_page' = arg_start.value
                  /\ end_page' = RequestedEnd(arg_end, total_pages)
             ELSE /\ NothingProcessed
                  /\ pc' = "main"
        /\ ( /\ entry = "app5"
             /\ InvalidRange(arg_start.value, RequestedEnd(arg_end, total_pages),
                             total_pages) ) => NothingProcessed
    ]_vars

\* C12 witness: the GUI has refused a range whose start and end are pages of the
\* manifest, the start after the end, while the results of an earlier analysis
\* are there.
C12_Witness ==
    /\ entry = "app"
    /\ last_log = "from_after_to"
    /\ arg_start.kind = "int" /\ arg_end.kind = "int"
    /\ arg_start.value <= total_pages /\ arg_end.value >= 1
    /\ arg_start.value > arg_end.value
    /\ analysis_results # <<>>
    /\ threads = 0

\* the CLI run has ended
CliEnded == entry = "app5" /\ pc = "exit"

\* no page could be loaded: the manifest could not be fetched, or it has no page
NoPagesLoaded == last_log = "manifest_error" \/ (manifest # 0 /\ total_pages = 0)

\* the manifest was loaded with pages and the range asked for is invalid
RangeRefused ==
    /\ manifest # 0 /\ total_pages > 0
    /\ InvalidRange(arg_start.value, RequestedEnd(arg_end, total_pages), total_pages)

\* what the caller of the process sees of a run: its exit status and whether
\* the output file was made.  A valid run that found no cover ends with
\* status 0 and no file.
Outcome == <<exit_code, out_file.created>>

\* C13: a CLI run whose range is invalid, or that could load no page, ends with
\* a non-zero exit status, which tells it from a valid run that found no cover
\* (status 0, no output file).
C13_FailureExit ==
    (CliEnded /\ (RangeRefused \/ NoPagesLoaded)) =>
      /\ exit_code # 0
      /\ Outcome # <<0, FALSE>>

\* the update_progress callbacks that are scheduled and have not run yet
PendingProgress ==
    Len(SelectSeq(after_queue, LAMBDA c : c.fn = "update_progress"))

\* show_summary has run for the last analysis and no request came since
SummaryShown == entry = "app" /\ last_log = "analysis_done"

\* C14: during an analysis of N pages every completed page, also one that got
\* the default verdict because it has no image locator or failed, has one
\* progress notification (shown, or scheduled and not yet run); when the summary
\* is shown the progress sink has received exactly N notifications, the k-th
\* reporting k of N, strictly increasing, the last one 100%.
C14_ProgressPerPage ==
    /\ (entry = "app" /\ pc \in {"loop", "summary"}) =>
         Len(progress) + PendingProgress = Len(analysis_results)
    /\ SummaryShown =>
         /\ Len(progress) = TotalToProcess
         /\ \A k \in 1..Len(progress) : progress[k] = Progress(k, TotalToProcess)
         /\ \A k \in 1..(Len(progress) - 1) : progress[k] < progress[k + 1]
         /\ progress # <<>> /\ progress[Len(progress)] = 100

\* the fetch, analyse and edit controls are disabled
ControlsDisabled ==
    button1 = "disabled" /\ button2 = "disabled" /\ button3 = "disabled"

\* a completion callback of a worker (toggle_ui of fetch_manifest, show_summary
\* of run_search) is scheduled and has not run yet
CompletionPending ==
    \E k \in 1..Len(after_queue) : after_queue[k].fn \in {"toggle_ui", "show_summary"}

\* the analysis whose records analysis_results holds went through its whole range
AnalysisCompleted ==
    /\ analysis_results # <<>>
    /\ Len(analysis_results) = end_page - start_page + 1
    /\ pc \notin {"started", "loop"}

\* C15: in the GUI at most one worker thread (manifest fetch or page analysis)
\* runs at a time; from the start of a worker until its completion callback
\* has run the fetch, analyse and edit controls are disabled and the editor
\* is closed; a running fetch has cleared the earlier results; and the editor
\* can be opened (button3 enabled) or is open only when a manifest is loaded,
\* no worker runs and analysis_results holds a completed analysis of that same
\* manifest.
C15_OneWorker ==
    entry = "app" =>
      /\ threads <= 1
      /\ ~(fetch_pc = "running" /\ pc \in {"started", "loop"})
      /\ (threads > 0 \/ CompletionPending) =>
           ControlsDisabled /\ editor = "closed"
      /\ fetch_pc = "running" => analysis_results = <<>>
      /\ (button3 = "normal" \/ editor = "open") =>
           /\ manifest # 0 /\ total_pages > 0
           /\ threads = 0
           /\ AnalysisCompleted
           /\ analysis_of = manifest

\* C15 witness: the editor is open on the second manifest the session fetched,
\* after an analysis of it.
C15_Witness ==
    /\ entry = "app"
    /\ editor = "open"
    /\ manifest = 2
    /\ analysis_of = 2
    /\ \E p \in DOMAIN check_state : check_state[p]

=============================================================================
